---- MODULE Spec2Model ----
(***************************************************************************)
(* Model of frontend/src-tauri/src/main.rs: the backend process supervisor *)
(* (start_backend, cleanup_backend) and the API proxy command              *)
(* (call_backend_api).                                                     *)
(*                                                                         *)
(* Tasks run on the multi-threaded async runtime, cleanup_backend runs on  *)
(* the event-loop / signal thread, so every access to the two statics is   *)
(* an interleaving point.  The mutex BACKEND_PROCESS is held only inside   *)
(* SbStore and CleanupTake; each of those critical sections is one atomic  *)
(* step, so the lock itself needs no variable.                             *)
(***************************************************************************)
EXTENDS Integers, Sequences, FiniteSets, TLC

(* ----------------------------- bounds --------------------------------- *)
MaxSpawns == 2

(* ------------------------- program constants -------------------------- *)
NumCandidates == 4

\* The sets of candidate directories (1 bundled, 2 parent, 3 current,
\* 4 "../backend") found on disk in the installations considered.
\* Candidates 2 and 4 name the same directory, so they exist together.
CandidateSets == {{}, {1, 3}, {2, 3, 4}}

Callers == {"c1"}
Tasks == {"eager"} \cup Callers
ChildIds == 1..MaxSpawns

(* ------------------------------ JSON ---------------------------------- *)
\* A JSON value: an object is a set of <<key, kind, text>> members with
\* distinct keys; any other value has no members and is its kind and text.
Obj(fields) == [kind |-> "object", fields |-> fields, text |-> ""]
Scalar(kind, text) == [kind |-> kind, fields |-> {}, text |-> text]
\* Option<serde_json::Value>: <<>> is None, <<v>> is Some(v).
None == <<>>
Some(v) == <<v>>

OverrideMembers ==
    { {},
      {<<"_method", "string", "DELETE">>},
      {<<"_method", "string", "PUT">>},
      {<<"_method", "string", "PATCH">>},
      {<<"_method", "number", "5">>} }
OtherMembers == {{}, {<<"id", "number", "5">>, <<"name", "string", "x">>}}
Payloads ==
    {None}
    \cup {Some(Obj(o \cup m)) : o \in OverrideMembers, m \in OtherMembers}
    \cup {Some(Scalar("string", "DELETE")), Some(Scalar("array", "[1]"))}

\* Tokens are sequences of characters; Quote is the character trimmed at
\* line 205.
Quote == "\""
AuthTokens ==
    {None, Some(<<>>), Some(<<"a", "b", "c">>),
     Some(<<Quote, "a", "b", "c", Quote>>)}
AltTokens == {None, Some(<<"x", "y", "z">>)}

\* The arguments of the invocations considered: every payload without
\* tokens, and every pair of tokens without a payload or with a DELETE one.
CallInputs ==
    {<<p, None, None>> : p \in Payloads}
    \cup {<<p, a, b>> :
            p \in {None, Some(Obj({<<"_method", "string", "DELETE">>}))},
            a \in AuthTokens, b \in AltTokens}

\* serde_json::Value::get(key): a member of an object, None otherwise.
Get(v, key) ==
    IF v.kind = "object" /\ \E m \in v.fields : m[1] = key
    THEN Some(CHOOSE m \in v.fields : m[1] = key)
    ELSE None

\* lines 179-182: request_data.get("_method").and_then(as_str)
MethodOverride(data) ==
    IF data = None THEN None
    ELSE LET g == Get(data[1], "_method")
         IN IF g # None /\ g[1][2] = "string" THEN Some(g[1][3]) ELSE None

\* lines 185-188: clone, then remove "_method" when the value is an object
CleanDataKeepsKey(data) ==
    data

CleanData(data) ==
    IF data = None THEN None
    ELSE IF data[1].kind = "object"
         THEN Some(Obj({m \in data[1].fields : m[1] # "_method"}))
         ELSE data

\* lines 177, 190-198: the verb of the request builder
BuilderMethodNoPut(data) ==
    IF data = None THEN "GET"
    ELSE IF MethodOverride(data) = Some("DELETE") THEN "DELETE"
    ELSE "POST"

BuilderMethod(data) ==
    IF data = None THEN "GET"
    ELSE IF MethodOverride(data) = Some("DELETE") THEN "DELETE"
    ELSE IF MethodOverride(data) = Some("PUT") THEN "PUT"
    ELSE "POST"

\* lines 213-235: the body attached before send()
RequestBodyAlways(data) ==
    CleanData(data)

RequestBody(data) ==
    IF MethodOverride(data) = Some("DELETE") THEN None
    ELSE IF MethodOverride(data) = Some("PUT") THEN CleanData(data)
    ELSE CleanData(data)


(* --------------------------- error texts ------------------------------ *)
\* Result<(), String> of start_backend: "none" while running, "Ok", or the
\* leading text of the Err string.
ErrNotFound == "Backend directory not found. Please ensure the backend folder exists."
ErrSpawn == "Failed to start backend: "
ErrNotResponding == "Backend server is not responding: "
SbErrors == {ErrNotFound, ErrSpawn, ErrNotResponding}

\* HTTP statuses the backend may answer with; is_success() is 2xx.
Statuses == {200, 404, 500}
IsSuccess(status) == status >= 200 /\ status <= 299

NoResult == [kind |-> "none", success |-> FALSE, data |-> "none", error |-> <<>>]
NoResp == [kind |-> "none", status |-> 0, parseable |-> FALSE]

(* ------------------------------ state --------------------------------- *)
VARIABLES
    BACKEND_STARTED,   \* static AtomicBool (line 19)
    BACKEND_PROCESS,   \* static Mutex<Option<Child>> (line 20): 0 is None
    children,          \* processes spawned by this process: id -> status
    childDir,          \* candidate directory each child was launched from
    external,          \* a backend not started by this process is listening
    existing,          \* the candidate directories that exist on disk
    pc,                \* position of the eager task and of each call
    sbres,             \* value start_backend returned to the task
    ops,               \* effects of the task's current start_backend
    probed,            \* outcome of its last probe: 0 none, -1 no response
    path,              \* backend_path local of start_backend
    child,             \* child local of start_backend
    sent,              \* number of proxied requests the current call sent
    req,               \* the request in flight, None when there is none
    resp,              \* what the exchange of the current call produced
    result,            \* value call_backend_api returned
    cpc,               \* position of cleanup_backend
    csrc,              \* what triggered the running cleanup_backend
    exited,            \* std::process::exit(0) was reached
    probeOk            \* a probe got a response since the flag was last false

vars == <<BACKEND_STARTED, BACKEND_PROCESS, children, childDir, external,
          existing, pc, sbres, ops, probed, path, child, sent, req, resp,
          result,
          cpc, csrc, exited, probeOk>>

supVars == <<BACKEND_STARTED, BACKEND_PROCESS, children, childDir, probeOk>>
envVars == <<external, existing>>
callVars == <<sent, req, resp, result>>
cleanVars == <<cpc, csrc, exited>>

Alive(id) == children[id] \in {"starting", "serving"}
AliveChildren == {id \in ChildIds : Alive(id)}
Spawned == {id \in ChildIds : children[id] # "none"}
\* Something accepts connections on 127.0.0.1:8000.
Listening == external \/ \E id \in ChildIds : children[id] = "serving"

Init ==
    /\ BACKEND_STARTED = FALSE
    /\ BACKEND_PROCESS = 0
    /\ children = [id \in ChildIds |-> "none"]
    /\ childDir = [id \in ChildIds |-> 0]
    /\ external \in BOOLEAN
    /\ existing \in CandidateSets
    /\ pc = [t \in Tasks |-> IF t = "eager" THEN "sb_check" ELSE "idle"]
    /\ sbres = [t \in Tasks |-> "none"]
    /\ ops = [t \in Tasks |-> {}]
    /\ probed = [t \in Tasks |-> 0]
    /\ path = [t \in Tasks |-> 0]
    /\ child = [t \in Tasks |-> 0]
    /\ sent = [t \in Callers |-> 0]
    /\ req = [t \in Callers |-> None]
    /\ resp = [t \in Callers |-> NoResp]
    /\ result = [t \in Callers |-> NoResult]
    /\ cpc = "idle"
    /\ csrc = "none"
    /\ exited = FALSE
    /\ probeOk = FALSE

(* --------------------------- start_backend ---------------------------- *)
\* line 24: the fast path is taken exactly when the flag reads true
FastPathNever(started) ==
    FALSE

FastPath(started) ==
    started

\* lines 23-26
SbCheck(t) ==
    /\ ~exited
    /\ pc[t] = "sb_check"
    /\ IF FastPath(BACKEND_STARTED)
       THEN /\ pc' = [pc EXCEPT ![t] = "sb_ret"]
            /\ sbres' = [sbres EXCEPT ![t] = "Ok"]
       ELSE /\ pc' = [pc EXCEPT ![t] = "sb_probe1"]
            /\ UNCHANGED sbres
    /\ UNCHANGED <<supVars, envVars, callVars, cleanVars, ops, probed, path, child>>

\* What send().await of a probe yields: NoAnswer for Err (connection
\* refused, timeout), or the status of the response.
NoAnswer == -1
ProbeOutcomes == {NoAnswer} \cup Statuses

\* lines 30-31 and 107-113: Ok(_) matches a response of any status
ProbeUpOnlySuccess(o) ==
    o # NoAnswer /\ IsSuccess(o)

ProbeUp(o) ==
    o # NoAnswer

\* lines 31-35: the first probe got a response
Probe1FoundTakesHandle(t) ==
    /\ BACKEND_STARTED' = TRUE
    /\ probeOk' = TRUE
    /\ BACKEND_PROCESS' = 1
    /\ pc' = [pc EXCEPT ![t] = "sb_ret"]
    /\ sbres' = [sbres EXCEPT ![t] = "Ok"]
    /\ UNCHANGED <<children, childDir>>

Probe1Found(t) ==
    /\ BACKEND_STARTED' = TRUE
    /\ probeOk' = TRUE
    /\ pc' = [pc EXCEPT ![t] = "sb_ret"]
    /\ sbres' = [sbres EXCEPT ![t] = "Ok"]
    /\ UNCHANGED <<BACKEND_PROCESS, children, childDir>>

\* lines 29-39: GET /pcc with a 2 s timeout.  Any response counts; the
\* request fails when nothing listens, and may time out when something does.
SbProbe1(t) ==
    /\ ~exited
    /\ pc[t] = "sb_probe1"
    /\ ops' = [ops EXCEPT ![t] = @ \cup {"probe"}]
    /\ \E o \in ProbeOutcomes :
          /\ o \in Statuses => Listening
          /\ probed' = [probed EXCEPT ![t] = o]
          /\ IF ProbeUp(o)
             THEN Probe1Found(t)
             ELSE /\ pc' = [pc EXCEPT ![t] = "sb_lookup"]
                  /\ UNCHANGED <<supVars, sbres>>
    /\ UNCHANGED <<envVars, callVars, cleanVars, path, child>>

\* lines 42-62: possible_paths.iter().find(|p| p.exists()); 0 when none
LastExisting(dirs) ==
    IF dirs = {} THEN 0
    ELSE CHOOSE i \in dirs : \A j \in dirs : i >= j

FirstExisting(dirs) ==
    IF dirs = {} THEN 0
    ELSE CHOOSE i \in dirs : \A j \in dirs : i <= j

SbLookup(t) ==
    /\ ~exited
    /\ pc[t] = "sb_lookup"
    /\ ops' = [ops EXCEPT ![t] = @ \cup {"lookup"}]
    /\ IF FirstExisting(existing) = 0
       THEN /\ pc' = [pc EXCEPT ![t] = "sb_ret"]
            /\ sbres' = [sbres EXCEPT ![t] = ErrNotFound]
            /\ UNCHANGED path
       ELSE /\ pc' = [pc EXCEPT ![t] = "sb_spawn"]
            /\ path' = [path EXCEPT ![t] = FirstExisting(existing)]
            /\ UNCHANGED sbres
    /\ UNCHANGED <<supVars, envVars, callVars, cleanVars, child, probed>>

\* lines 74-91: Command::spawn either yields a new child or fails
SbSpawn(t) ==
    /\ ~exited
    /\ pc[t] = "sb_spawn"
    /\ ops' = [ops EXCEPT ![t] = @ \cup {"spawn"}]
    /\ \/ /\ Cardinality(Spawned) < MaxSpawns
          /\ LET id == Cardinality(Spawned) + 1
             IN /\ children' = [children EXCEPT ![id] = "starting"]
                /\ childDir' = [childDir EXCEPT ![id] = path[t]]
                /\ child' = [child EXCEPT ![t] = id]
          /\ pc' = [pc EXCEPT ![t] = "sb_store"]
          /\ UNCHANGED sbres
       \/ /\ pc' = [pc EXCEPT ![t] = "sb_ret"]
          /\ sbres' = [sbres EXCEPT ![t] = ErrSpawn]
          /\ UNCHANGED <<children, childDir, child>>
    /\ UNCHANGED <<BACKEND_STARTED, BACKEND_PROCESS, probeOk, envVars,
                   callVars, cleanVars, path, probed>>

\* lines 93-96: the handle is overwritten; dropping a Child does not kill it
SbStore(t) ==
    /\ ~exited
    /\ pc[t] = "sb_store"
    /\ BACKEND_PROCESS' = child[t]
    /\ child' = [child EXCEPT ![t] = 0]
    /\ pc' = [pc EXCEPT ![t] = "sb_setflag"]
    /\ UNCHANGED <<BACKEND_STARTED, children, childDir, probeOk, envVars,
                   callVars, cleanVars, sbres, ops, probed, path>>

\* line 98
SbSetFlag(t) ==
    /\ ~exited
    /\ pc[t] = "sb_setflag"
    /\ BACKEND_STARTED' = TRUE
    /\ pc' = [pc EXCEPT ![t] = "sb_probe2"]
    /\ UNCHANGED <<BACKEND_PROCESS, children, childDir, probeOk, envVars,
                   callVars, cleanVars, sbres, ops, probed, path, child>>

\* lines 100-121: sleep 3 s, then GET /pcc with a 5 s timeout
SbProbe2(t) ==
    /\ ~exited
    /\ pc[t] = "sb_probe2"
    /\ ops' = [ops EXCEPT ![t] = @ \cup {"probe"}]
    /\ pc' = [pc EXCEPT ![t] = "sb_ret"]
    /\ \E o \in ProbeOutcomes :
          /\ o \in Statuses => Listening
          /\ probed' = [probed EXCEPT ![t] = o]
          /\ IF ProbeUp(o)
             THEN /\ sbres' = [sbres EXCEPT ![t] = "Ok"]
                  /\ probeOk' = TRUE
             ELSE /\ sbres' = [sbres EXCEPT ![t] = ErrNotResponding]
                  /\ UNCHANGED probeOk
    /\ UNCHANGED <<BACKEND_STARTED, BACKEND_PROCESS, children, childDir,
                   envVars, callVars, cleanVars, path, child>>

\* lines 278-282: the eager task logs an Err and ends
EagerReturn ==
    /\ ~exited
    /\ pc["eager"] = "sb_ret"
    /\ pc' = [pc EXCEPT !["eager"] = "done"]
    /\ sbres' = [sbres EXCEPT !["eager"] = "none"]
    /\ ops' = [ops EXCEPT !["eager"] = {}]
    /\ probed' = [probed EXCEPT !["eager"] = 0]
    /\ path' = [path EXCEPT !["eager"] = 0]
    /\ UNCHANGED <<supVars, envVars, callVars, cleanVars, child>>

(* -------------------------- call_backend_api -------------------------- *)
\* lines 139-153: a command invocation arrives
CallInvoke(t) ==
    /\ ~exited
    /\ pc[t] = "idle"
    /\ pc' = [pc EXCEPT ![t] = "sb_check"]
    /\ UNCHANGED <<supVars, envVars, cleanVars, sbres, ops, probed, path, child, sent,
                   req, resp, result>>

\* lines 159-166: the ApiResponse built from start_backend's Err
Unavailable(e) ==
    [kind |-> "Ok", success |-> FALSE, data |-> "none",
     error |-> <<"Backend server is not available. Error: ", e>>]

\* lines 155-167: match start_backend().await
AfterStartIgnoresErr(t) ==
    /\ pc' = [pc EXCEPT ![t] = "c_request"]
    /\ UNCHANGED result

AfterStart(t) ==
    IF sbres[t] = "Ok"
    THEN /\ pc' = [pc EXCEPT ![t] = "c_request"]
         /\ UNCHANGED result
    ELSE /\ pc' = [pc EXCEPT ![t] = "c_ret"]
         /\ result' = [result EXCEPT ![t] = Unavailable(sbres[t])]

CallAfterStart(t) ==
    /\ ~exited
    /\ t \in Callers
    /\ pc[t] = "sb_ret"
    /\ AfterStart(t)
    /\ sbres' = [sbres EXCEPT ![t] = "none"]
    /\ ops' = [ops EXCEPT ![t] = {}]
    /\ probed' = [probed EXCEPT ![t] = 0]
    /\ path' = [path EXCEPT ![t] = 0]
    /\ UNCHANGED <<supVars, envVars, cleanVars, child, sent, req, resp>>

\* line 202: auth_token.as_ref().or(token.as_ref())
TokenToUse(auth_token, token) ==
    IF auth_token # None THEN auth_token ELSE token

\* line 205: str::trim_matches('"') removes every leading and every
\* trailing quote character
RECURSIVE TrimStart(_)
TrimStart(s) ==
    IF s # <<>> /\ Head(s) = Quote THEN TrimStart(Tail(s)) ELSE s

RECURSIVE TrimEnd(_)
TrimEnd(s) ==
    IF s # <<>> /\ s[Len(s)] = Quote THEN TrimEnd(SubSeq(s, 1, Len(s) - 1)) ELSE s

TrimMatches(s) == TrimEnd(TrimStart(s))

\* lines 201-211: the Authorization header, None when no token was given
AuthHeader(auth_token, token) ==
    IF TokenToUse(auth_token, token) = None THEN None
    ELSE Some(<<"Bearer ">> \o TrimMatches(TokenToUse(auth_token, token)[1]))

\* The request put on the wire for the arguments (lines 174-235).
Request(data, auth_token, token) ==
    [method |-> BuilderMethod(data), body |-> RequestBody(data),
     authorization |-> AuthHeader(auth_token, token),
     payload |-> data, auth_token |-> auth_token, token |-> token]

\* lines 170-235: build the client and the request, and send it.  The
\* builder's Err leaves through `?` (line 173).
CallRequest(t) ==
    /\ ~exited
    /\ t \in Callers
    /\ pc[t] = "c_request"
    /\ \/ /\ pc' = [pc EXCEPT ![t] = "c_ret"]
          /\ result' = [result EXCEPT ![t] =
                 [kind |-> "Err", success |-> FALSE, data |-> "none",
                  error |-> <<"Failed to create HTTP client: ">>]]
          /\ UNCHANGED <<sent, req>>
       \/ /\ \E in \in CallInputs :
                 req' = [req EXCEPT ![t] = Some(Request(in[1], in[2], in[3]))]
          /\ sent' = [sent EXCEPT ![t] = @ + 1]
          /\ pc' = [pc EXCEPT ![t] = "c_await"]
          /\ UNCHANGED result
    /\ UNCHANGED <<supVars, envVars, cleanVars, sbres, ops, probed, path, child,
                   resp>>

\* lines 237-264: every arm of the match ends the command; there is no loop
AfterResponseRetries(r) ==
    IF r.kind = "transport" THEN "c_request" ELSE "c_ret"

AfterResponse(r) ==
    "c_ret"

\* lines 237-264: the value returned for what the exchange produced
ResponseResultTransportFault(r) ==
    IF r.kind = "transport"
    THEN [kind |-> "Err", success |-> FALSE, data |-> "none",
          error |-> <<"transport error">>]
    ELSE IF IsSuccess(r.status)
    THEN IF r.parseable
         THEN [kind |-> "Ok", success |-> TRUE, data |-> "json", error |-> <<>>]
         ELSE [kind |-> "Err", success |-> FALSE, data |-> "none",
               error |-> <<"parse error">>]
    ELSE [kind |-> "Ok", success |-> FALSE, data |-> "none",
          error |-> <<"HTTP ", r.status, ": ", "body text">>]

ResponseResultStatusIgnored(r) ==
    IF r.kind = "transport"
    THEN [kind |-> "Ok", success |-> FALSE, data |-> "none",
          error |-> <<"transport error">>]
    ELSE IF r.parseable \/ ~IsSuccess(r.status)
    THEN [kind |-> "Ok", success |-> TRUE, data |-> "json", error |-> <<>>]
    ELSE [kind |-> "Err", success |-> FALSE, data |-> "none",
          error |-> <<"parse error">>]

ResponseResult(r) ==
    IF r.kind = "transport"
    THEN [kind |-> "Ok", success |-> FALSE, data |-> "none",
          error |-> <<"transport error">>]
    ELSE IF IsSuccess(r.status)
    THEN IF r.parseable
         THEN [kind |-> "Ok", success |-> TRUE, data |-> "json", error |-> <<>>]
         ELSE [kind |-> "Err", success |-> FALSE, data |-> "none",
               error |-> <<"parse error">>]
    ELSE [kind |-> "Ok", success |-> FALSE, data |-> "none",
          error |-> <<"HTTP ", r.status, ": ", "body text">>]

\* line 216-233 .send().await completes: a transport error (nothing
\* listens, or the 30 s timeout), or a response from whatever listens
CallRespond(t) ==
    /\ ~exited
    /\ t \in Callers
    /\ pc[t] = "c_await"
    /\ \E r \in {[kind |-> "transport", status |-> 0, parseable |-> FALSE]}
                \cup {[kind |-> "response", status |-> st, parseable |-> b] :
                        st \in Statuses, b \in BOOLEAN} :
          /\ r.kind = "response" => Listening
          /\ r.parseable => IsSuccess(r.status)
          /\ req' = [req EXCEPT ![t] = None]
          /\ resp' = [resp EXCEPT ![t] = r]
          /\ result' = [result EXCEPT ![t] = ResponseResult(r)]
          /\ pc' = [pc EXCEPT ![t] = AfterResponse(r)]
    /\ UNCHANGED <<supVars, envVars, cleanVars, sbres, ops, probed, path, child,
                   sent>>

\* the command's value has been handed to the caller
CallReturn(t) ==
    /\ ~exited
    /\ t \in Callers
    /\ pc[t] = "c_ret"
    /\ pc' = [pc EXCEPT ![t] = "idle"]
    /\ sent' = [sent EXCEPT ![t] = 0]
    /\ resp' = [resp EXCEPT ![t] = NoResp]
    /\ result' = [result EXCEPT ![t] = NoResult]
    /\ UNCHANGED <<supVars, envVars, cleanVars, sbres, ops, probed, path, child,
                   req>>

(* -------------------------- cleanup_backend --------------------------- *)
\* lines 269-272 and 285-289: Ctrl+C or the window's CloseRequested
CleanupBegin ==
    /\ ~exited
    /\ cpc = "idle"
    /\ csrc' \in {"ctrlc", "window"}
    /\ cpc' = "take"
    /\ UNCHANGED <<supVars, envVars, callVars, exited, pc, sbres, ops, probed, path,
                   child>>

\* lines 129-131: kill() and wait() on the taken child; both results ignored
KillNothing(h, ch) ==
    ch

KillAll(h, ch) ==
    [id \in DOMAIN ch |->
        IF ch[id] \in {"starting", "serving"} THEN "dead" ELSE ch[id]]

Kill(h, ch) ==
    IF h = 0 THEN ch
    ELSE [ch EXCEPT ![h] = IF @ \in {"starting", "serving"} THEN "dead" ELSE @]

\* lines 127-134
CleanupTake ==
    /\ ~exited
    /\ cpc = "take"
    /\ children' = Kill(BACKEND_PROCESS, children)
    /\ BACKEND_PROCESS' = 0
    /\ cpc' = "flag"
    /\ UNCHANGED <<BACKEND_STARTED, childDir, probeOk, envVars, callVars,
                   csrc, exited, pc, sbres, ops, probed, path, child>>

\* line 135
CleanupFlag ==
    /\ ~exited
    /\ cpc = "flag"
    /\ BACKEND_STARTED' = FALSE
    /\ probeOk' = FALSE
    /\ cpc' = "done"
    /\ UNCHANGED <<BACKEND_PROCESS, children, childDir, envVars, callVars,
                   csrc, exited, pc, sbres, ops, probed, path, child>>

\* line 271: after the Ctrl+C handler's cleanup the process exits; the
\* window handler returns to the event loop
CleanupReturn ==
    /\ ~exited
    /\ cpc = "done"
    /\ cpc' = "idle"
    /\ csrc' = "none"
    /\ exited' = (csrc = "ctrlc")
    /\ UNCHANGED <<supVars, envVars, callVars, pc, sbres, ops, probed,
                   path, child>>

(* ---------------------------- environment ----------------------------- *)
\* uvicorn binds 127.0.0.1:8000 when the port is free
ChildBinds(id) ==
    /\ children[id] = "starting"
    /\ ~Listening
    /\ children' = [children EXCEPT ![id] = "serving"]
    /\ UNCHANGED <<BACKEND_STARTED, BACKEND_PROCESS, childDir, probeOk,
                   envVars, callVars, cleanVars, pc, sbres, ops, probed, path, child>>

\* a child exits on its own (bind failure, crash)
ChildExits(id) ==
    /\ Alive(id)
    /\ children' = [children EXCEPT ![id] = "dead"]
    /\ UNCHANGED <<BACKEND_STARTED, BACKEND_PROCESS, childDir, probeOk,
                   envVars, callVars, cleanVars, pc, sbres, ops, probed, path, child>>

\* the backend somebody else started goes away
ExternalStops ==
    /\ external
    /\ external' = FALSE
    /\ UNCHANGED <<supVars, existing, callVars, cleanVars, pc, sbres, ops, probed,
                   path, child>>

Next ==
    \/ \E t \in Tasks : SbCheck(t)
    \/ \E t \in Tasks : SbProbe1(t)
    \/ \E t \in Tasks : SbLookup(t)
    \/ \E t \in Tasks : SbSpawn(t)
    \/ \E t \in Tasks : SbStore(t)
    \/ \E t \in Tasks : SbSetFlag(t)
    \/ \E t \in Tasks : SbProbe2(t)
    \/ EagerReturn
    \/ \E t \in Callers : CallInvoke(t)
    \/ \E t \in Callers : CallAfterStart(t)
    \/ \E t \in Callers : CallRequest(t)
    \/ \E t \in Callers : CallRespond(t)
    \/ \E t \in Callers : CallReturn(t)
    \/ CleanupBegin
    \/ CleanupTake
    \/ CleanupFlag
    \/ CleanupReturn
    \/ \E id \in ChildIds : ChildBinds(id)
    \/ \E id \in ChildIds : ChildExits(id)
    \/ ExternalStops

Spec == Init /\ [][Next]_vars

(* ---------------- invocations that do not overlap in time -------------- *)
\* The task is inside start_backend (lines 23-121).
InStart(t) ==
    pc[t] \in {"sb_check", "sb_probe1", "sb_lookup", "sb_spawn", "sb_store",
               "sb_setflag", "sb_probe2"}

\* No start_backend of another task and no cleanup_backend is in progress.
Alone(t) ==
    /\ cpc = "idle"
    /\ \A u \in Tasks \ {t} : ~InStart(u)

NoStart == \A u \in Tasks : ~InStart(u)

\* The same steps, scheduled so that every start_backend and every
\* cleanup_backend runs to completion before the next one begins.
NextSeq ==
    \/ \E t \in Tasks : Alone(t) /\ SbCheck(t)
    \/ \E t \in Tasks : Alone(t) /\ SbProbe1(t)
    \/ \E t \in Tasks : Alone(t) /\ SbLookup(t)
    \/ \E t \in Tasks : Alone(t) /\ SbSpawn(t)
    \/ \E t \in Tasks : Alone(t) /\ SbStore(t)
    \/ \E t \in Tasks : Alone(t) /\ SbSetFlag(t)
    \/ \E t \in Tasks : Alone(t) /\ SbProbe2(t)
    \/ EagerReturn
    \/ \E t \in Callers : Alone(t) /\ CallInvoke(t)
    \/ \E t \in Callers : CallAfterStart(t)
    \/ \E t \in Callers : CallRequest(t)
    \/ \E t \in Callers : CallRespond(t)
    \/ \E t \in Callers : CallReturn(t)
    \/ NoStart /\ CleanupBegin
    \/ NoStart /\ CleanupTake
    \/ NoStart /\ CleanupFlag
    \/ CleanupReturn
    \/ \E id \in ChildIds : ChildBinds(id)
    \/ \E id \in ChildIds : ChildExits(id)
    \/ ExternalStops

SpecSeq == Init /\ [][NextSeq]_vars


(* ------------------------------ claims -------------------------------- *)
UnavailableText == "Backend server is not available. Error: "

\* C1: when start_backend has launched a child and the post-launch probe
\* failed, it returns the error with BACKEND_STARTED unset, so that the next
\* start_backend does not take the fast path.
C1_FlagUnsetAfterFailedStartup ==
    \A t \in Tasks :
        (pc[t] = "sb_ret" /\ sbres[t] = ErrNotResponding) => ~BACKEND_STARTED

\* C2: under every interleaving of the eager startup task and the calls, at
\* most one child process launched by this process is alive at any time.
C2_AtMostOneLiveChild ==
    Cardinality(AliveChildren) <= 1

\* C3: a response with a success status whose body cannot be parsed makes
\* call_backend_api return a normal ApiResponse with success = false and the
\* parse error as its error, never an Err.
C3_ParseFailureIsNormalResult ==
    \A t \in Callers :
        (/\ pc[t] = "c_ret"
         /\ resp[t].kind = "response"
         /\ IsSuccess(resp[t].status)
         /\ ~resp[t].parseable)
        => (/\ result[t].kind = "Ok"
            /\ ~result[t].success
            /\ result[t].data = "none"
            /\ result[t].error # <<>>)

\* C4: whenever cleanup_backend completes, the handle is absent and the flag
\* is unset, whatever step of start_backend another task is executing.
C4_ShutdownLeavesCleanState ==
    [][(cpc = "flag" /\ cpc' = "done")
        => (BACKEND_PROCESS' = 0 /\ ~BACKEND_STARTED')]_vars

\* C5: a handle is held only for a child this process spawned; a first probe
\* that finds a backend sets the flag and returns Ok without spawning or
\* storing a handle; cleanup_backend terminates only the child in the handle,
\* so with no handle it terminates nothing, and it never stops a backend this
\* process did not start.
C5_HandleOnlyForOwnChild ==
    /\ [](BACKEND_PROCESS # 0 => BACKEND_PROCESS \in Spawned)
    /\ [][\A t \in Tasks :
            (pc[t] = "sb_probe1" /\ pc'[t] = "sb_ret")
            => (/\ BACKEND_STARTED'
                /\ sbres'[t] = "Ok"
                /\ "spawn" \notin ops'[t]
                /\ BACKEND_PROCESS' = BACKEND_PROCESS
                /\ children' = children)]_vars
    /\ [][(cpc = "take" /\ cpc' = "flag")
            => (/\ external' = external
                /\ \A id \in ChildIds :
                      id # BACKEND_PROCESS => children'[id] = children[id])]_vars

\* C5 witness: cleanup_backend has passed its critical section after an
\* external backend was found by the first probe and nothing was spawned.
C5_Witness ==
    /\ cpc = "flag"
    /\ external
    /\ Spawned = {}
    /\ BACKEND_STARTED
    /\ probeOk
    /\ pc["eager"] = "done"

\* C6: whenever BACKEND_STARTED is set, some probe of this process got a
\* response since the flag was last unset.
C6_FlagImpliesProbeSucceeded ==
    BACKEND_STARTED => probeOk

\* C7: once BACKEND_STARTED is set, start_backend returns Ok at once: no
\* probe, no directory lookup, no spawn, no change of the handle.
C7_FastPathIdempotent ==
    /\ [][\A t \in Tasks :
            (pc[t] = "sb_check" /\ BACKEND_STARTED /\ pc'[t] # pc[t])
            => (/\ pc'[t] = "sb_ret"
                /\ sbres'[t] = "Ok"
                /\ ops'[t] = {}
                /\ BACKEND_PROCESS' = BACKEND_PROCESS
                /\ children' = children)]_vars
    /\ [](\A t \in Tasks : pc[t] = "sb_check" => ops[t] = {})

\* C7 witness: a call's start_backend returned through the fast path after
\* the eager start_backend had launched a child and set the flag.
C7_Witness ==
    /\ pc["c1"] = "sb_ret"
    /\ ops["c1"] = {}
    /\ sbres["c1"] = "Ok"
    /\ BACKEND_STARTED
    /\ pc["eager"] = "done"
    /\ Cardinality(Spawned) = 1

\* C8: when start_backend fails inside call_backend_api, the call returns
\* success = false, no data and an error naming the cause, and sends no
\* proxied request.
C8_UnavailableSendsNothing ==
    /\ [][\A t \in Callers :
            (pc[t] = "sb_ret" /\ sbres[t] \in SbErrors /\ pc'[t] # pc[t])
            => (/\ pc'[t] = "c_ret"
                /\ result'[t].kind = "Ok"
                /\ ~result'[t].success
                /\ result'[t].data = "none"
                /\ result'[t].error = <<UnavailableText, sbres[t]>>
                /\ sent'[t] = 0
                /\ req'[t] = None)]_vars
    /\ [](\A t \in Callers :
            (pc[t] = "c_ret" /\ result[t].error # <<>>
               /\ result[t].error[1] = UnavailableText)
            => (sent[t] = 0 /\ req[t] = None))

\* C8 witness: a call returned "not available" for a failed post-launch probe.
C8_Witness ==
    /\ pc["c1"] = "c_ret"
    /\ result["c1"].error = <<UnavailableText, ErrNotResponding>>
    /\ sent["c1"] = 0

\* The member of an object payload under the reserved key, as a predicate.
HasOverride(data, verb) ==
    /\ data # None
    /\ data[1].kind = "object"
    /\ <<"_method", "string", verb>> \in data[1].fields

\* C9: the method of the proxied request is GET without a payload, DELETE
\* or PUT when the payload's "_method" is that string, POST for every other
\* payload.
C9_MethodFromPayload ==
    \A t \in Callers :
        req[t] # None =>
            LET r == req[t][1]
            IN r.method =
                 IF r.payload = None THEN "GET"
                 ELSE IF HasOverride(r.payload, "DELETE") THEN "DELETE"
                 ELSE IF HasOverride(r.payload, "PUT") THEN "PUT"
                 ELSE "POST"

\* C9 witness: a PUT request is in flight for a payload with the override.
C9_Witness ==
    /\ req["c1"] # None
    /\ req["c1"][1].method = "PUT"
    /\ HasOverride(req["c1"][1].payload, "PUT")

\* C10: GET and DELETE requests carry no body; POST and PUT requests carry
\* the payload without its "_method" member and otherwise unchanged.
C10_BodyFromMethod ==
    \A t \in Callers :
        req[t] # None =>
            LET r == req[t][1]
            IN IF r.method \in {"GET", "DELETE"}
               THEN r.body = None
               ELSE /\ r.payload # None
                    /\ r.body # None
                    /\ r.body[1].kind = r.payload[1].kind
                    /\ r.body[1].text = r.payload[1].text
                    /\ r.body[1].fields =
                         {m \in r.payload[1].fields : m[1] # "_method"}

\* C10 witness: a POST is in flight whose payload held an unrecognized
\* override next to other members.
C10_Witness ==
    /\ req["c1"] # None
    /\ req["c1"][1].method = "POST"
    /\ <<"_method", "string", "PATCH">> \in req["c1"][1].payload[1].fields
    /\ req["c1"][1].body[1].fields =
         {<<"id", "number", "5">>, <<"name", "string", "x">>}

\* C11 (as claimed): a payload whose "_method" is "DELETE" is sent as a
\* DELETE request whose body is the payload without the override member.
C11_DeleteSendsStrippedBody ==
    \A t \in Callers :
        (req[t] # None /\ HasOverride(req[t][1].payload, "DELETE"))
        => (/\ req[t][1].method = "DELETE"
            /\ req[t][1].body # None
            /\ req[t][1].body[1].fields =
                 {m \in req[t][1].payload[1].fields : m[1] # "_method"})

\* C11 (amended): a payload whose "_method" is "DELETE" is sent as a DELETE
\* request without any body, so neither the override member nor any other
\* member of the payload is transmitted.
C11_DeleteSendsNoBody ==
    \A t \in Callers :
        (req[t] # None /\ HasOverride(req[t][1].payload, "DELETE"))
        => (req[t][1].method = "DELETE" /\ req[t][1].body = None)

\* C11 witness: the DELETE for {"_method":"DELETE","id":5,"name":"x"} is in
\* flight.
C11_Witness ==
    /\ req["c1"] # None
    /\ HasOverride(req["c1"][1].payload, "DELETE")
    /\ <<"id", "number", "5">> \in req["c1"][1].payload[1].fields
    /\ req["c1"][1].method = "DELETE"

\* C12: the bearer credential is auth_token when it is present and not
\* empty, otherwise token when it is present, otherwise no Authorization
\* header is attached.
C12_CredentialPrefersNonEmptyAuthToken ==
    \A t \in Callers :
        req[t] # None =>
            LET r == req[t][1]
                expected ==
                    IF r.auth_token # None /\ r.auth_token[1] # <<>>
                    THEN r.auth_token
                    ELSE r.token
            IN IF expected = None
               THEN r.authorization = None
               ELSE r.authorization =
                        Some(<<"Bearer ">> \o TrimMatches(expected[1]))

\* C13: in every ApiResponse call_backend_api returns, exactly one of data
\* and error is present, and data is present exactly when success is true.
C13_ExactlyOneOfDataAndError ==
    \A t \in Callers :
        (pc[t] = "c_ret" /\ result[t].kind = "Ok")
        => (/\ (result[t].data # "none") # (result[t].error # <<>>)
            /\ (result[t].data # "none") = result[t].success
            /\ resp[t].kind = "none" => ~result[t].success
            /\ resp[t].kind = "transport" => ~result[t].success
            /\ resp[t].kind = "response" =>
                  result[t].success = IsSuccess(resp[t].status))

\* C13 witness: a call returned the ApiResponse of a non-2xx answer.
C13_Witness ==
    /\ pc["c1"] = "c_ret"
    /\ resp["c1"].kind = "response"
    /\ resp["c1"].status = 404
    /\ result["c1"].kind = "Ok"
    /\ result["c1"].error = <<"HTTP ", 404, ": ", "body text">>

\* C14 (as claimed): cleanup_backend run when this process has launched no
\* child is a no-op: it leaves the lifecycle flag as it was.
C14_ShutdownWithoutChildChangesNothing ==
    [][(cpc = "flag" /\ cpc' = "done" /\ Spawned = {})
        => (/\ BACKEND_STARTED' = BACKEND_STARTED
            /\ BACKEND_PROCESS' = 0
            /\ children' = children)]_vars

\* C14 (amended): cleanup_backend run with no handle stored terminates no
\* process and leaves the handle absent, and its last step leaves the flag
\* unset: a flag set by the detection of an external backend is reset.
C14_ShutdownWithoutHandle ==
    /\ [][(cpc = "take" /\ cpc' = "flag" /\ BACKEND_PROCESS = 0)
            => (/\ children' = children
                /\ external' = external
                /\ BACKEND_PROCESS' = 0
                /\ BACKEND_STARTED' = BACKEND_STARTED)]_vars
    /\ [][(cpc = "flag" /\ cpc' = "done")
            => (/\ ~BACKEND_STARTED'
                /\ children' = children
                /\ external' = external
                /\ BACKEND_PROCESS' = BACKEND_PROCESS)]_vars

\* C14 witness: cleanup_backend has completed after an external backend had
\* been detected; nothing was ever spawned and the flag has been reset.
C14_Witness ==
    /\ cpc = "done"
    /\ Spawned = {}
    /\ external
    /\ pc["eager"] = "done"
    /\ BACKEND_PROCESS = 0
    /\ ~BACKEND_STARTED

\* C15: a transport failure of the proxied exchange makes call_backend_api
\* return an ApiResponse with success = false and an error, and the call
\* neither launches anything nor sends the request again.
C15_TransportFailureIsReported ==
    /\ [][\A t \in Callers :
            (pc[t] = "c_await" /\ pc'[t] # "c_await"
               /\ resp'[t].kind = "transport")
            => (/\ pc'[t] = "c_ret"
                /\ result'[t].kind = "Ok"
                /\ ~result'[t].success
                /\ result'[t].data = "none"
                /\ result'[t].error # <<>>
                /\ sent'[t] = sent[t]
                /\ children' = children
                /\ BACKEND_PROCESS' = BACKEND_PROCESS
                /\ BACKEND_STARTED' = BACKEND_STARTED)]_vars
    /\ [][\A t \in Callers :
            (pc[t] = "c_ret" /\ pc'[t] # "c_ret")
            => (/\ pc'[t] = "idle"
                /\ children' = children
                /\ BACKEND_PROCESS' = BACKEND_PROCESS
                /\ BACKEND_STARTED' = BACKEND_STARTED)]_vars

\* C15 witness: a call that went through the fast path got a transport
\* error after cleanup_backend had killed the child this process launched.
C15_Witness ==
    /\ pc["c1"] = "c_ret"
    /\ resp["c1"].kind = "transport"
    /\ sent["c1"] = 1
    /\ ~result["c1"].success
    /\ children[1] = "dead"
    /\ Cardinality(Spawned) = 1
    /\ BACKEND_PROCESS = 0
    /\ cpc \in {"flag", "done"}
    /\ ~Listening

\* C16: every invocation of call_backend_api sends at most one proxied
\* request, whatever the exchange produced.
C16_AtMostOneRequest ==
    \A t \in Callers :
        /\ sent[t] <= 1
        /\ req[t] # None => (sent[t] = 1 /\ pc[t] = "c_await")
        /\ resp[t].kind # "none" => (sent[t] = 1 /\ pc[t] = "c_ret")

\* C16 witness: a call returned a transport error having sent one request.
C16_Witness ==
    /\ pc["c1"] = "c_ret"
    /\ resp["c1"].kind = "transport"
    /\ result["c1"].error = <<"transport error">>
    /\ sent["c1"] = 1

\* d is the first candidate directory, in the order of possible_paths, that
\* exists.
IsFirstCandidate(d) ==
    /\ d \in existing
    /\ \A j \in 1..NumCandidates : j < d => j \notin existing

\* C17: after a failed first probe start_backend launches the backend from
\* the first existing candidate directory; when none exists it returns the
\* not-found error having spawned nothing, stored no handle and set no flag.
C17_FirstExistingCandidate ==
    /\ [](\A id \in Spawned : IsFirstCandidate(childDir[id]))
    /\ [](\A t \in Tasks :
            pc[t] \in {"sb_spawn", "sb_store"} => IsFirstCandidate(path[t]))
    /\ [](existing = {} => (Spawned = {} /\ BACKEND_PROCESS = 0))
    /\ [][\A t \in Tasks :
            (pc[t] = "sb_lookup" /\ pc'[t] # "sb_lookup")
            => IF existing = {}
               THEN /\ pc'[t] = "sb_ret"
                    /\ sbres'[t] = ErrNotFound
                    /\ "spawn" \notin ops'[t]
                    /\ children' = children
                    /\ BACKEND_PROCESS' = BACKEND_PROCESS
                    /\ BACKEND_STARTED' = BACKEND_STARTED
               ELSE /\ pc'[t] = "sb_spawn"
                    /\ IsFirstCandidate(path'[t])]_vars

\* C17 witness: with every candidate but the bundled one on disk, a child
\* runs from the parent-directory one.
C17_Witness ==
    /\ existing = {2, 3, 4}
    /\ Alive(1)
    /\ childDir[1] = 2

\* C18: a probe counts the backend as up exactly when a response arrived,
\* whatever its status; a first probe answered with an error status makes
\* start_backend set the flag and return Ok without launching anything, and
\* only a probe without a response lets it go on to launch or fail.
C18_AnyResponseCountsAsUp ==
    /\ [][\A t \in Tasks :
            (pc[t] = "sb_probe1" /\ pc'[t] # "sb_probe1")
            => IF probed'[t] \in Statuses
               THEN /\ pc'[t] = "sb_ret"
                    /\ sbres'[t] = "Ok"
                    /\ BACKEND_STARTED'
                    /\ "spawn" \notin ops'[t]
                    /\ children' = children
                    /\ BACKEND_PROCESS' = BACKEND_PROCESS
               ELSE /\ probed'[t] = NoAnswer
                    /\ pc'[t] = "sb_lookup"
                    /\ BACKEND_STARTED' = BACKEND_STARTED]_vars
    /\ [][\A t \in Tasks :
            (pc[t] = "sb_probe2" /\ pc'[t] # "sb_probe2")
            => /\ pc'[t] = "sb_ret"
               /\ IF probed'[t] \in Statuses
                  THEN sbres'[t] = "Ok"
                  ELSE probed'[t] = NoAnswer /\ sbres'[t] = ErrNotResponding]_vars

\* C18 witness: the eager start_backend returned Ok on a probe answered with
\* status 500, the flag is set and nothing was spawned.
C18_Witness ==
    /\ pc["eager"] = "sb_ret"
    /\ probed["eager"] = 500
    /\ sbres["eager"] = "Ok"
    /\ BACKEND_STARTED
    /\ Spawned = {}
    /\ BACKEND_PROCESS = 0

\* C19 (as claimed): when start_backend and cleanup_backend invocations do
\* not overlap, at most one child of this process is alive at any time and
\* a live child is always the one held in BACKEND_PROCESS.
C19_SequentialLiveChildIsHandle ==
    /\ Cardinality(AliveChildren) <= 1
    /\ \A id \in AliveChildren : BACKEND_PROCESS = id

\* C19 (amended): when the invocations do not overlap, at most one child of
\* this process is alive at any time, and a live child is the one held in
\* BACKEND_PROCESS except between Command::spawn (line 85) and the store of
\* the handle (line 95), when it is the local of the running start_backend.
C19_SequentialLiveChildIsHandleOrLocal ==
    /\ Cardinality(AliveChildren) <= 1
    /\ \A id \in AliveChildren :
          \/ BACKEND_PROCESS = id
          \/ \E t \in Tasks : pc[t] = "sb_store" /\ child[t] = id
    /\ NoStart => \A id \in AliveChildren : BACKEND_PROCESS = id

\* C19 witness: after a shutdown killed the first child, a later
\* start_backend has launched a second one, which is held in the handle.
C19_Witness ==
    /\ children[1] = "dead"
    /\ Alive(2)
    /\ BACKEND_PROCESS = 2
    /\ NoStart

\* C20: no launched child is orphaned: whenever no start_backend is in
\* progress, every live child of this process is the one held in
\* BACKEND_PROCESS, so none survives a completed cleanup_backend.
C20_NoOrphanedChild ==
    NoStart => \A id \in AliveChildren : BACKEND_PROCESS = id

====
